---- MODULE Spec2Model ----
(***************************************************************************)
(* A model of tools/license_summary.py: the license summary of the        *)
(* third-party dependencies of one package of a cargo workspace.          *)
(*                                                                         *)
(* Python strings are sequences of one-character strings, so that          *)
(* startswith, endswith, slicing, lower(), sorted() and                    *)
(* os.path.commonprefix are computed character by character, as Python     *)
(* computes them.  None is the one-element sequence <<"None">>, which is   *)
(* no string of characters.                                                *)
(***************************************************************************)
EXTENDS Integers, Sequences, FiniteSets, TLC

VARIABLES
    pc,             \* the position of the run
    package,        \* argv: the target package name
    as_json,        \* argv: --json
    cargoPkgs,      \* "packages" of the output of `cargo metadata`, in order
    workspaceRoot,  \* "workspace_root" of the output of `cargo metadata`
    fs,             \* the file system: directory path -> listing
    metadata,       \* the value get_workspace_metadata returned
    deps,           \* print_license_summary: the set deps
    order,          \* print_license_summary: sorted(deps)
    i,              \* print_license_summary: the index of enumerate (from 0)
    pkgInfo,        \* fetch_license_text: its argument
    tryIdx,         \* fetch_license_text: the position in tryFiles (from 1)
    requests,       \* every URL given to requests.get so far, in order
    lastResp,       \* the outcome of the last requests.get of the call: the status
                    \* code, -1 when it raised, 0 before any
    licenseText,    \* the value fetch_license_text returned
    stdout,         \* the lines printed so far
    error,          \* the exception that ended the run
    isLocal         \* the value a lone call of is_local_package returned

vars == <<pc, package, as_json, cargoPkgs, workspaceRoot, fs, metadata, deps,
          order, i, pkgInfo, tryIdx, requests, lastResp, licenseText, stdout,
          error, isLocal>>

(***************************************************************************)
(* Bounds of the model.                                                    *)
(***************************************************************************)
\* the entries a package directory holds besides Cargo.toml
MaxEntries == 2

(***************************************************************************)
(* Python strings.                                                         *)
(***************************************************************************)
None == <<"None">>

\* the ASCII letters and digits and the punctuation of names, paths and URLs,
\* by code point
Printable == <<" ", "#", "+", "-", ".", "/", "0", "1", "2", "3", "4", "5", "6", "7", "8", "9", ":", "@", "A", "B", "C", "D", "E", "F", "G", "H", "I", "J", "K", "L", "M", "N", "O", "P", "Q", "R", "S", "T", "U", "V", "W", "X", "Y", "Z", "_", "a", "b", "c", "d", "e", "f", "g", "h", "i", "j", "k", "l", "m", "n", "o", "p", "q", "r", "s", "t", "u", "v", "w", "x", "y", "z", "~">>
UpperCase == <<"A", "B", "C", "D", "E", "F", "G", "H", "I", "J", "K", "L", "M", "N", "O", "P", "Q", "R", "S", "T", "U", "V", "W", "X", "Y", "Z">>
LowerCase == <<"a", "b", "c", "d", "e", "f", "g", "h", "i", "j", "k", "l", "m", "n", "o", "p", "q", "r", "s", "t", "u", "v", "w", "x", "y", "z">>

\* the rank of ord(c)
Ord(c) == CHOOSE k \in 1..Len(Printable) : Printable[k] = c

\* c.lower()
LowerChar(c) ==
    IF \E k \in 1..Len(UpperCase) : UpperCase[k] = c
    THEN LowerCase[CHOOSE k \in 1..Len(UpperCase) : UpperCase[k] = c]
    ELSE c

\* s.lower()
Lower(s) == [k \in 1..Len(s) |-> LowerChar(s[k])]

\* s.startswith(p)
StartsWith(s, p) == Len(s) >= Len(p) /\ SubSeq(s, 1, Len(p)) = p

\* s.endswith(p)
EndsWith(s, p) == Len(s) >= Len(p) /\ SubSeq(s, Len(s) - Len(p) + 1, Len(s)) = p

\* a < b on str: by code point, a proper prefix first
StrLess(a, b) ==
    LET n == IF Len(a) < Len(b) THEN Len(a) ELSE Len(b)
        diff == {k \in 1..n : a[k] # b[k]}
    IN  IF diff = {} THEN Len(a) < Len(b)
        ELSE LET k == CHOOSE x \in diff : \A y \in diff : x <= y
             IN  Ord(a[k]) < Ord(b[k])

\* sorted(S), S a set of str
RECURSIVE Sorted(_)
Sorted(S) ==
    IF S = {} THEN <<>>
    ELSE LET m == CHOOSE x \in S : \A y \in S \ {x} : StrLess(x, y)
         IN  <<m>> \o Sorted(S \ {m})

(***************************************************************************)
(* os.path (posixpath).                                                    *)
(***************************************************************************)
\* p.rfind("/") + 1
LastSlash(p) ==
    LET at == {k \in 1..Len(p) : p[k] = "/"}
    IN  IF at = {} THEN 0 ELSE CHOOSE x \in at : \A y \in at : y <= x

\* s.rstrip("/")
RECURSIVE RStripSlash(_)
RStripSlash(s) ==
    IF s # <<>> /\ s[Len(s)] = "/" THEN RStripSlash(SubSeq(s, 1, Len(s) - 1)) ELSE s

\* os.path.dirname(p)
Dirname(p) ==
    LET head == SubSeq(p, 1, LastSlash(p))
    IN  IF head # <<>> /\ \E k \in 1..Len(head) : head[k] # "/"
        THEN RStripSlash(head) ELSE head

\* os.path.basename(p)
Basename(p) == SubSeq(p, LastSlash(p) + 1, Len(p))

\* os.path.join(a, b)
Join(a, b) ==
    IF StartsWith(b, <<"/">>) THEN b
    ELSE IF a = <<>> \/ EndsWith(a, <<"/">>) THEN a \o b
    ELSE a \o <<"/">> \o b

\* os.path.commonprefix([a, b]): the longest common prefix, character by character
commonprefix(a, b) ==
    LET n == IF Len(a) < Len(b) THEN Len(a) ELSE Len(b)
        same == {k \in 0..n : \A j \in 1..k : a[j] = b[j]}
    IN  SubSeq(a, 1, CHOOSE x \in same : \A y \in same : y <= x)

(***************************************************************************)
(* The file system.  fs maps the path of each directory that exists to    *)
(* its listing, a function from entry name to [kind, text].               *)
(***************************************************************************)
\* os.path.isdir(path)
IsDir(path) == path \in DOMAIN fs

\* os.listdir(path)
ListDir(path) == DOMAIN fs[path]

\* os.path.isfile(path)
IsFile(path) ==
    /\ Dirname(path) \in DOMAIN fs
    /\ Basename(path) \in DOMAIN fs[Dirname(path)]
    /\ fs[Dirname(path)][Basename(path)].kind = "file"

\* the text of the file at path
TextOf(path) == [enc |-> "str", of |-> path]
NoText == [enc |-> "none", of |-> <<>>]

\* an entry of a listing
FileEntry == [kind |-> "file"]
DirEntry == [kind |-> "dir"]

\* slurp: open(path).read(), the text or IsADirectoryError
slurp(path) ==
    IF fs[Dirname(path)][Basename(path)].kind = "file"
    THEN [kind |-> "text", text |-> TextOf(path)]
    ELSE [kind |-> "error", text |-> NoText]

(***************************************************************************)
(* Exceptions.                                                             *)
(***************************************************************************)
NoError == [type |-> "none", arg |-> <<>>]
Exception(type, arg) == [type |-> type, arg |-> arg]
\* RuntimeError: "Could not find license file for '{name}'", name the package's name
NotFound(pkg) == Exception("RuntimeError", pkg.name)

(***************************************************************************)
(* Packages of the output of `cargo metadata`.                             *)
(***************************************************************************)
Pkg(id, name, authors, source, manifest_path, license, license_file, repository) ==
    [id |-> id, name |-> name, authors |-> authors, source |-> source,
     manifest_path |-> manifest_path, license |-> license,
     license_file |-> license_file, repository |-> repository]
NoPkg == Pkg(None, None, <<>>, None, None, None, None, None)
\* the source of a package of crates.io
REGISTRY == <<"r", "e", "g", "i", "s", "t", "r", "y", "+", "h", "t", "t", "p", "s", ":", "/", "/", "g", "i", "t", "h", "u", "b", ".", "c", "o", "m", "/", "r", "u", "s", "t", "-", "l", "a", "n", "g", "/", "c", "r", "a", "t", "e", "s", ".", "i", "o", "-", "i", "n", "d", "e", "x">>
NoMetadata == [packages |-> [n \in {} |-> NoPkg], workspace_root |-> None]

(***************************************************************************)
(* fetch_license_text.                                                     *)
(***************************************************************************)
GITHUB == <<"h", "t", "t", "p", "s", ":", "/", "/", "g", "i", "t", "h", "u", "b", ".", "c", "o", "m", "/">>
RAW == <<"h", "t", "t", "p", "s", ":", "/", "/", "r", "a", "w", ".", "g", "i", "t", "h", "u", "b", "u", "s", "e", "r", "c", "o", "n", "t", "e", "n", "t", ".", "c", "o", "m", "/">>

\* the test of the loop over sorted(os.listdir(pkgRoot))
IsLicenseName(nm) ==
    \/ Lower(nm) = <<"c", "o", "p", "y", "i", "n", "g">>
    \/ Lower(nm) = <<"l", "i", "c", "e", "n", "s", "e">>
    \/ StartsWith(Lower(nm), <<"l", "i", "c", "e", "n", "s", "e", ".">>)
    \/ StartsWith(Lower(nm), <<"l", "i", "c", "e", "n", "s", "e", "-">>)

\* LocalCopy with the scan of the directory before the declared file
LocalCopy_ScanFirst(pkg) ==
    LET pkgRoot == Dirname(pkg.manifest_path)
        hits == SelectSeq(Sorted(ListDir(pkgRoot)), IsLicenseName)
    IN  IF ~IsDir(pkgRoot) THEN [kind |-> "miss", text |-> NoText]
        ELSE IF hits # <<>> THEN slurp(Join(pkgRoot, hits[1]))
        ELSE IF pkg.license_file # None /\ IsFile(Join(pkgRoot, pkg.license_file))
        THEN slurp(Join(pkgRoot, pkg.license_file))
        ELSE [kind |-> "miss", text |-> NoText]

\* the local copy in the package index: its text, an error of open(), or a miss
LocalCopy(pkg) ==
    LET pkgRoot == Dirname(pkg.manifest_path)
        hits == SelectSeq(Sorted(ListDir(pkgRoot)), IsLicenseName)
    IN  IF ~IsDir(pkgRoot) THEN [kind |-> "miss", text |-> NoText]
        ELSE IF pkg.license_file # None /\ IsFile(Join(pkgRoot, pkg.license_file))
        THEN slurp(Join(pkgRoot, pkg.license_file))
        ELSE IF hits # <<>> THEN slurp(Join(pkgRoot, hits[1]))
        ELSE [kind |-> "miss", text |-> NoText]

\* IsGithub without the test of the prefix
IsGithub_AnyUrl(repo) == repo # None /\ repo # <<>>

\* repo and repo.startswith("https://github.com/")
IsGithub(repo) == repo # None /\ repo # <<>> /\ StartsWith(repo, GITHUB)

\* OrgAndName that keeps a trailing ".git"
OrgAndName_KeepGit(repo) == SubSeq(repo, Len(GITHUB) + 1, Len(repo))

\* orgAndName
OrgAndName(repo) ==
    LET orgAndName == SubSeq(repo, Len(GITHUB) + 1, Len(repo))
    IN  IF EndsWith(orgAndName, <<".", "g", "i", "t">>)
        THEN SubSeq(orgAndName, 1, Len(orgAndName) - 4) ELSE orgAndName

\* tryFiles
TryFiles(pkg) ==
    (IF pkg.license_file # None THEN <<pkg.license_file>> ELSE <<>>)
    \o << <<"L", "I", "C", "E", "N", "S", "E", "-", "A", "P", "A", "C", "H", "E">>, <<"L", "I", "C", "E", "N", "S", "E", "-", "M", "I", "T">>, <<"L", "I", "C", "E", "N", "S", "E">>,
          <<"L", "I", "C", "E", "N", "C", "E", "-", "A", "P", "A", "C", "H", "E">>, <<"L", "I", "C", "E", "N", "C", "E", "-", "M", "I", "T">>, <<"L", "I", "C", "E", "N", "C", "E">>,
          <<"C", "O", "P", "Y", "I", "N", "G">> >>

\* tryUrl
TryUrl(pkg, nm) == RAW \o OrgAndName(pkg.repository) \o <<"/", "m", "a", "s", "t", "e", "r", "/">> \o nm

\* r.content.decode("utf8")
Decode(url) == [enc |-> "str", of |-> url]

\* the status codes a response carries in the model
StatusCodes == {200, 404, 500}

Raise(e) ==
    /\ pc' = "aborted"
    /\ error' = e

\* the local copy is found and read
FetchLocal ==
    /\ pc = "fetch"
    /\ LocalCopy(pkgInfo).kind = "text"
    /\ licenseText' = LocalCopy(pkgInfo).text
    /\ pc' = "fetched"
    /\ UNCHANGED <<package, as_json, cargoPkgs, workspaceRoot, fs, metadata, deps,
                   order, i, pkgInfo, tryIdx, requests, lastResp, stdout, error,
                   isLocal>>

\* the entry the scan stops at cannot be read as a file
FetchLocalError ==
    /\ pc = "fetch"
    /\ LocalCopy(pkgInfo).kind = "error"
    /\ Raise(Exception("IsADirectoryError", <<>>))
    /\ UNCHANGED <<package, as_json, cargoPkgs, workspaceRoot, fs, metadata, deps,
                   order, i, pkgInfo, tryIdx, requests, lastResp, licenseText,
                   stdout, isLocal>>

\* no local copy, a github repository: on to the network
FetchRemoteStart ==
    /\ pc = "fetch"
    /\ LocalCopy(pkgInfo).kind = "miss"
    /\ IsGithub(pkgInfo.repository)
    /\ tryIdx' = 1
    /\ lastResp' = 0
    /\ pc' = "remote"
    /\ UNCHANGED <<package, as_json, cargoPkgs, workspaceRoot, fs, metadata, deps,
                   order, i, pkgInfo, requests, licenseText, stdout, error,
                   isLocal>>

\* no local copy, no github repository
FetchNoRemote ==
    /\ pc = "fetch"
    /\ LocalCopy(pkgInfo).kind = "miss"
    /\ ~IsGithub(pkgInfo.repository)
    /\ Raise(NotFound(pkgInfo))
    /\ UNCHANGED <<package, as_json, cargoPkgs, workspaceRoot, fs, metadata, deps,
                   order, i, pkgInfo, tryIdx, requests, lastResp, licenseText,
                   stdout, isLocal>>

\* requests.get(tryUrl) returns a response with status code 200
RemoteHit ==
    /\ pc = "remote"
    /\ tryIdx <= Len(TryFiles(pkgInfo))
    /\ requests' = Append(requests, TryUrl(pkgInfo, TryFiles(pkgInfo)[tryIdx]))
    /\ lastResp' = 200
    /\ licenseText' = Decode(TryUrl(pkgInfo, TryFiles(pkgInfo)[tryIdx]))
    /\ pc' = "fetched"
    /\ UNCHANGED <<package, as_json, cargoPkgs, workspaceRoot, fs, metadata, deps,
                   order, i, pkgInfo, tryIdx, stdout, error, isLocal>>

\* requests.get(tryUrl) returns a response with another status code
RemoteMiss ==
    /\ pc = "remote"
    /\ tryIdx <= Len(TryFiles(pkgInfo))
    /\ requests' = Append(requests, TryUrl(pkgInfo, TryFiles(pkgInfo)[tryIdx]))
    /\ \E status \in StatusCodes \ {200} : lastResp' = status
    /\ tryIdx' = tryIdx + 1
    /\ UNCHANGED <<pc, package, as_json, cargoPkgs, workspaceRoot, fs, metadata,
                   deps, order, i, pkgInfo, licenseText, stdout, error, isLocal>>

\* RemoteFault that swallows the exception and goes on to the next candidate
RemoteFault_Swallowed ==
    /\ pc = "remote"
    /\ tryIdx <= Len(TryFiles(pkgInfo))
    /\ requests' = Append(requests, TryUrl(pkgInfo, TryFiles(pkgInfo)[tryIdx]))
    /\ lastResp' = -1
    /\ tryIdx' = tryIdx + 1
    /\ UNCHANGED <<pc, package, as_json, cargoPkgs, workspaceRoot, fs, metadata,
                   deps, order, i, pkgInfo, licenseText, stdout, error, isLocal>>

\* requests.get(tryUrl) raises: no response at all
RemoteFault ==
    /\ pc = "remote"
    /\ tryIdx <= Len(TryFiles(pkgInfo))
    /\ requests' = Append(requests, TryUrl(pkgInfo, TryFiles(pkgInfo)[tryIdx]))
    /\ lastResp' = -1
    /\ Raise(Exception("ConnectionError", <<>>))
    /\ UNCHANGED <<package, as_json, cargoPkgs, workspaceRoot, fs, metadata, deps,
                   order, i, pkgInfo, tryIdx, licenseText, stdout, isLocal>>

\* the loop over tryFiles ends without a return
RemoteExhausted ==
    /\ pc = "remote"
    /\ tryIdx > Len(TryFiles(pkgInfo))
    /\ Raise(NotFound(pkgInfo))
    /\ UNCHANGED <<package, as_json, cargoPkgs, workspaceRoot, fs, metadata, deps,
                   order, i, pkgInfo, tryIdx, requests, lastResp, licenseText,
                   stdout, isLocal>>

fetch_license_text ==
    \/ FetchLocal
    \/ FetchLocalError
    \/ FetchRemoteStart
    \/ FetchNoRemote
    \/ RemoteHit
    \/ RemoteMiss
    \/ RemoteFault
    \/ RemoteExhausted


(***************************************************************************)
(* is_local_package.                                                       *)
(***************************************************************************)
is_local_package(md, name) ==
    LET info == md.packages[name]
        manifest == info.manifest_path
        root == commonprefix(manifest, md.workspace_root)
    IN  IF info.source # None THEN FALSE
        ELSE IF root # md.workspace_root THEN FALSE
        ELSE TRUE

(***************************************************************************)
(* get_workspace_metadata.                                                 *)
(***************************************************************************)
\* the loop over metadata["packages"]: the assertion reads pkgInfoByName, whose
\* keys are names, with the package's id
RECURSIVE IndexByName(_, _)
IndexByName(pkgs, pkgInfoByName) ==
    IF pkgs = <<>> THEN [ok |-> TRUE, packages |-> pkgInfoByName]
    ELSE IF Head(pkgs).id \in DOMAIN pkgInfoByName
    THEN [ok |-> FALSE, packages |-> pkgInfoByName]
    ELSE IndexByName(Tail(pkgs),
                     [n \in DOMAIN pkgInfoByName \cup {Head(pkgs).name} |->
                        IF n = Head(pkgs).name THEN Head(pkgs) ELSE pkgInfoByName[n]])

\* `cargo metadata` exits with a status that is not zero
CargoMetadataFails ==
    /\ pc = "start"
    /\ Raise(Exception("CalledProcessError", <<>>))
    /\ UNCHANGED <<package, as_json, cargoPkgs, workspaceRoot, fs, metadata, deps,
                   order, i, pkgInfo, tryIdx, requests, lastResp, licenseText,
                   stdout, isLocal>>

get_workspace_metadata ==
    /\ pc = "start"
    /\ LET r == IndexByName(cargoPkgs, [n \in {} |-> NoPkg])
       IN  IF r.ok
           THEN /\ metadata' = [packages |-> r.packages, workspace_root |-> workspaceRoot]
                /\ pc' = "tree"
                /\ error' = error
           ELSE /\ Raise(Exception("AssertionError", <<>>))
                /\ metadata' = metadata
    /\ UNCHANGED <<package, as_json, cargoPkgs, workspaceRoot, fs, deps, order, i,
                   pkgInfo, tryIdx, requests, lastResp, licenseText, stdout,
                   isLocal>>

(***************************************************************************)
(* print_license_summary.                                                  *)
(***************************************************************************)
\* ln.strip().split()[0], ln not blank
RECURSIVE LStrip(_)
LStrip(s) == IF s # <<>> /\ s[1] = " " THEN LStrip(Tail(s)) ELSE s
FirstToken(ln) ==
    LET t == LStrip(ln)
        sp == {k \in 1..Len(t) : t[k] = " "}
    IN  IF sp = {} THEN t
        ELSE SubSeq(t, 1, (CHOOSE x \in sp : \A y \in sp : x <= y) - 1)

\* the loop over p.stdout.split("\n")
TreeDeps(lines) == {FirstToken(ln) : ln \in {l \in lines : LStrip(l) # <<>>}}

\* a line of standard output
Line(kind, val) == [line |-> kind, val |-> val]

\* ", ".join(authors)
RECURSIVE JoinComma(_)
JoinComma(authors) ==
    IF authors = <<>> THEN <<>>
    ELSE IF Len(authors) = 1 THEN authors[1]
    ELSE authors[1] \o <<",", " ">> \o JoinComma(Tail(authors))

\* the packages of the output of `cargo metadata`
CargoPkgSet == {cargoPkgs[k] : k \in 1..Len(cargoPkgs)}

\* metadata["packages"][package] raises KeyError
TargetUnknown ==
    /\ pc = "tree"
    /\ package \notin DOMAIN metadata.packages
    /\ Raise(Exception("KeyError", package))
    /\ UNCHANGED <<package, as_json, cargoPkgs, workspaceRoot, fs, metadata, deps,
                   order, i, pkgInfo, tryIdx, requests, lastResp, licenseText,
                   stdout, isLocal>>

\* `cargo tree` exits with a status that is not zero
CargoTreeFails ==
    /\ pc = "tree"
    /\ package \in DOMAIN metadata.packages
    /\ Raise(Exception("CalledProcessError", <<>>))
    /\ UNCHANGED <<package, as_json, cargoPkgs, workspaceRoot, fs, metadata, deps,
                   order, i, pkgInfo, tryIdx, requests, lastResp, licenseText,
                   stdout, isLocal>>

\* `cargo tree` prints a line for the package of the manifest and one for each
\* of its dependencies, which are packages of the workspace's metadata; the
\* text ends with a newline, so that split gives a last, empty line
CargoTree ==
    /\ pc = "tree"
    /\ package \in DOMAIN metadata.packages
    /\ \E sel \in SUBSET CargoPkgSet :
         deps' = TreeDeps({p.id : p \in sel \cup {metadata.packages[package]}} \cup {<<>>})
    /\ pc' = "header"
    /\ UNCHANGED <<package, as_json, cargoPkgs, workspaceRoot, fs, metadata, order,
                   i, pkgInfo, tryIdx, requests, lastResp, licenseText, stdout,
                   error, isLocal>>

\* print("[") or print("-------------"), and the start of the loop
PrintHeader ==
    /\ pc = "header"
    /\ stdout' = Append(stdout, IF as_json THEN Line("[", None) ELSE Line("-------------", None))
    /\ order' = Sorted(deps)
    /\ i' = 0
    /\ pc' = "loop"
    /\ UNCHANGED <<package, as_json, cargoPkgs, workspaceRoot, fs, metadata, deps,
                   pkgInfo, tryIdx, requests, lastResp, licenseText, error, isLocal>>

\* is_local_package(metadata, name): continue
LoopSkipLocal ==
    /\ pc = "loop"
    /\ i < Len(order)
    /\ is_local_package(metadata, order[i + 1])
    /\ i' = i + 1
    /\ UNCHANGED <<pc, package, as_json, cargoPkgs, workspaceRoot, fs, metadata,
                   deps, order, pkgInfo, tryIdx, requests, lastResp, licenseText,
                   stdout, error, isLocal>>

\* fetch_license_info(metadata, name) calls fetch_license_text(pkgInfo)
fetch_license_info ==
    /\ pc = "loop"
    /\ i < Len(order)
    /\ ~is_local_package(metadata, order[i + 1])
    /\ pkgInfo' = metadata.packages[order[i + 1]]
    /\ pc' = "fetch"
    /\ UNCHANGED <<package, as_json, cargoPkgs, workspaceRoot, fs, metadata, deps,
                   order, i, tryIdx, requests, lastResp, licenseText, stdout,
                   error, isLocal>>

\* the dictionary fetch_license_info returns
LicenseInfo(dep, info, text) ==
    [name |-> dep, authors |-> info.authors, repository |-> info.repository,
     license |-> info.license, license_text |-> text]

\* the lines of one record
RecordLines(info, json, last) ==
    IF json
    THEN << Line("json", info), IF last THEN Line("]", None) ELSE Line(",", None) >>
    ELSE << Line("Name: ", info.name),
            Line("Authors: ", JoinComma(info.authors)),
            Line("Repository: ", info.repository) >>
         \o (IF info.license # None THEN << Line("License: ", info.license) >> ELSE <<>>)
         \o << Line("License Text:", None),
               Line("", None),
               Line("", info.license_text),
               Line("-------------", None) >>

\* the prints of one turn of the loop
PrintRecord ==
    /\ pc = "fetched"
    /\ stdout' = stdout \o RecordLines(LicenseInfo(order[i + 1], pkgInfo, licenseText),
                                      as_json, i = Cardinality(deps) - 1)
    /\ i' = i + 1
    /\ pc' = "loop"
    /\ UNCHANGED <<package, as_json, cargoPkgs, workspaceRoot, fs, metadata, deps,
                   order, pkgInfo, tryIdx, requests, lastResp, licenseText, error,
                   isLocal>>

\* the loop is over
LoopExit ==
    /\ pc = "loop"
    /\ i >= Len(order)
    /\ pc' = "done"
    /\ UNCHANGED <<package, as_json, cargoPkgs, workspaceRoot, fs, metadata, deps,
                   order, i, pkgInfo, tryIdx, requests, lastResp, licenseText,
                   stdout, error, isLocal>>

print_license_summary ==
    \/ CargoMetadataFails
    \/ get_workspace_metadata
    \/ TargetUnknown
    \/ CargoTreeFails
    \/ CargoTree
    \/ PrintHeader
    \/ LoopSkipLocal
    \/ fetch_license_info
    \/ fetch_license_text
    \/ PrintRecord
    \/ LoopExit


(***************************************************************************)
(* The run of the script on a workspace.                                   *)
(***************************************************************************)
\* the packages `cargo metadata` lists are at most MaxPkgs of the Catalogue
MaxPkgs == 3

\* A workspace at /ws with the members app and viaduct; two versions of serde
\* from the registry, one with a license in the package index and one whose
\* directory is gone; regex from the registry, whose licenses lie in a directory
\* named license; url from the registry, with no license and no repository;
\* zip, a path dependency in /ws-vendor, beside the workspace; tool, a path
\* dependency in /ext.
WS_ROOT == <<"/", "w", "s">>
Catalogue ==
    << Pkg(<<"a", "p", "p", " ", "0", ".", "1", ".", "0">>, <<"a", "p", "p">>, << <<"A">> >>, None, <<"/", "w", "s", "/", "a", "p", "p", "/", "C", "a", "r", "g", "o", ".", "t", "o", "m", "l">>,
           <<"M", "P", "L", "-", "2", ".", "0">>, None, None),
       Pkg(<<"r", "e", "g", "e", "x", " ", "1", ".", "3", ".", "0">>, <<"r", "e", "g", "e", "x">>, << <<"R">> >>, REGISTRY, <<"/", "r", "e", "g", "/", "r", "e", "g", "e", "x", "/", "C", "a", "r", "g", "o", ".", "t", "o", "m", "l">>,
           <<"M", "I", "T">>, None, <<"h", "t", "t", "p", "s", ":", "/", "/", "g", "i", "t", "h", "u", "b", ".", "c", "o", "m", "/", "o", "/", "r", "e", "g", "e", "x">>),
       Pkg(<<"s", "e", "r", "d", "e", " ", "0", ".", "9", ".", "0">>, <<"s", "e", "r", "d", "e">>, << <<"D">>, <<"E">> >>, REGISTRY, <<"/", "r", "e", "g", "/", "s", "e", "r", "d", "e", "-", "0", ".", "9", "/", "C", "a", "r", "g", "o", ".", "t", "o", "m", "l">>,
           None, None, <<"h", "t", "t", "p", "s", ":", "/", "/", "g", "i", "t", "h", "u", "b", ".", "c", "o", "m", "/", "o", "/", "r", ".", "g", "i", "t">>),
       Pkg(<<"s", "e", "r", "d", "e", " ", "1", ".", "0", ".", "0">>, <<"s", "e", "r", "d", "e">>, << <<"D">> >>, REGISTRY, <<"/", "r", "e", "g", "/", "s", "e", "r", "d", "e", "-", "1", ".", "0", "/", "C", "a", "r", "g", "o", ".", "t", "o", "m", "l">>,
           <<"M", "I", "T">>, None, <<"h", "t", "t", "p", "s", ":", "/", "/", "g", "i", "t", "h", "u", "b", ".", "c", "o", "m", "/", "o", "/", "r">>),
       Pkg(<<"t", "o", "o", "l", " ", "0", ".", "3", ".", "0">>, <<"t", "o", "o", "l">>, <<>>, None, <<"/", "e", "x", "t", "/", "t", "o", "o", "l", "/", "C", "a", "r", "g", "o", ".", "t", "o", "m", "l">>,
           None, <<"N", "O", "T", "I", "C", "E">>, None),
       Pkg(<<"u", "r", "l", " ", "2", ".", "0", ".", "0">>, <<"u", "r", "l">>, << <<"U">> >>, REGISTRY, <<"/", "r", "e", "g", "/", "u", "r", "l", "/", "C", "a", "r", "g", "o", ".", "t", "o", "m", "l">>,
           <<"M", "I", "T">>, None, None),
       Pkg(<<"v", "i", "a", "d", "u", "c", "t", " ", "0", ".", "1", ".", "0">>, <<"v", "i", "a", "d", "u", "c", "t">>, << <<"A">> >>, None, <<"/", "w", "s", "/", "v", "i", "a", "d", "u", "c", "t", "/", "C", "a", "r", "g", "o", ".", "t", "o", "m", "l">>,
           <<"M", "P", "L", "-", "2", ".", "0">>, None, None),
       Pkg(<<"z", "i", "p", " ", "0", ".", "5", ".", "0">>, <<"z", "i", "p">>, << <<"Z">> >>, None, <<"/", "w", "s", "-", "v", "e", "n", "d", "o", "r", "/", "z", "i", "p", "/", "C", "a", "r", "g", "o", ".", "t", "o", "m", "l">>,
           <<"M", "I", "T">>, None, None) >>

CatalogueFS ==
    (<<"/", "w", "s", "/", "a", "p", "p">> :> (<<"C", "a", "r", "g", "o", ".", "t", "o", "m", "l">> :> FileEntry))
    @@ (<<"/", "w", "s", "/", "v", "i", "a", "d", "u", "c", "t">> :> (<<"C", "a", "r", "g", "o", ".", "t", "o", "m", "l">> :> FileEntry))
    @@ (<<"/", "r", "e", "g", "/", "s", "e", "r", "d", "e", "-", "1", ".", "0">> :> ((<<"C", "a", "r", "g", "o", ".", "t", "o", "m", "l">> :> FileEntry) @@ (<<"L", "I", "C", "E", "N", "S", "E", "-", "M", "I", "T">> :> FileEntry)))
    @@ (<<"/", "r", "e", "g", "/", "r", "e", "g", "e", "x">> :> ((<<"C", "a", "r", "g", "o", ".", "t", "o", "m", "l">> :> FileEntry) @@ (<<"l", "i", "c", "e", "n", "s", "e">> :> DirEntry)))
    @@ (<<"/", "r", "e", "g", "/", "u", "r", "l">> :> ((<<"C", "a", "r", "g", "o", ".", "t", "o", "m", "l">> :> FileEntry) @@ (<<"R", "E", "A", "D", "M", "E">> :> FileEntry)))
    @@ (<<"/", "e", "x", "t", "/", "t", "o", "o", "l">> :> ((<<"C", "a", "r", "g", "o", ".", "t", "o", "m", "l">> :> FileEntry) @@ (<<"N", "O", "T", "I", "C", "E">> :> FileEntry)
                          @@ (<<"C", "O", "P", "Y", "I", "N", "G">> :> FileEntry)))
    @@ (<<"/", "w", "s", "-", "v", "e", "n", "d", "o", "r", "/", "z", "i", "p">> :> ((<<"C", "a", "r", "g", "o", ".", "t", "o", "m", "l">> :> FileEntry) @@ (<<"C", "O", "P", "Y", "I", "N", "G">> :> FileEntry)))

\* the members of the workspace, which the script is run for
Targets == { <<"a", "p", "p">>, <<"v", "i", "a", "d", "u", "c", "t">> }

\* the packages of the Catalogue at the positions S, in the Catalogue's order
RECURSIVE PickSeq(_, _)
PickSeq(S, k) ==
    IF k > Len(Catalogue) THEN <<>>
    ELSE (IF k \in S THEN <<Catalogue[k]>> ELSE <<>>) \o PickSeq(S, k + 1)

Reverse(s) == [k \in 1..Len(s) |-> s[Len(s) + 1 - k]]

Init ==
    /\ pc = "start"
    /\ package \in Targets
    /\ as_json \in BOOLEAN
    /\ \E S \in {T \in SUBSET (1..Len(Catalogue)) : Cardinality(T) <= MaxPkgs} :
         cargoPkgs \in {PickSeq(S, 1), Reverse(PickSeq(S, 1))}
    /\ workspaceRoot = WS_ROOT
    /\ fs = CatalogueFS
    /\ metadata = NoMetadata
    /\ deps = {}
    /\ order = <<>>
    /\ i = 0
    /\ pkgInfo = NoPkg
    /\ tryIdx = 0
    /\ requests = <<>>
    /\ lastResp = 0
    /\ licenseText = NoText
    /\ stdout = <<>>
    /\ error = NoError
    /\ isLocal = FALSE

Next == print_license_summary

Spec == Init /\ [][Next]_vars

(***************************************************************************)
(* A lone call of get_workspace_metadata, on each list of at most          *)
(* MaxMetaPkgs packages whose names and ids are drawn from two small sets. *)
(***************************************************************************)
MaxMetaPkgs == 2
MetaNames == { <<"a">>, <<"b">> }
MetaIds == { <<"a", " ", "1", ".", "0", ".", "0">>, <<"a", " ", "2", ".", "0", ".", "0">>, <<"b", " ", "1", ".", "0", ".", "0">>, <<"a">> }
MetaPkgs == {Pkg(id, name, <<>>, REGISTRY, None, None, None, None) :
                id \in MetaIds, name \in MetaNames}

InitMeta ==
    /\ pc = "start"
    /\ cargoPkgs \in UNION {[1..n -> MetaPkgs] : n \in 0..MaxMetaPkgs}
    /\ workspaceRoot = WS_ROOT
    /\ package = None
    /\ as_json = FALSE
    /\ fs = [d \in {} |-> <<>>]
    /\ metadata = NoMetadata
    /\ deps = {}
    /\ order = <<>>
    /\ i = 0
    /\ pkgInfo = NoPkg
    /\ tryIdx = 0
    /\ requests = <<>>
    /\ lastResp = 0
    /\ licenseText = NoText
    /\ stdout = <<>>
    /\ error = NoError
    /\ isLocal = FALSE

NextMeta ==
    \/ CargoMetadataFails
    \/ get_workspace_metadata

SpecMeta == InitMeta /\ [][NextMeta]_vars

(***************************************************************************)
(* A lone call of is_local_package, on each package whose manifest lies    *)
(* in a directory at most MaxDepth deep, and each workspace root likewise. *)
(***************************************************************************)
MaxDepth == 2
DirNames == { <<"a", "p", "p">>, <<"a", "p", "p", "-", "v", "e", "n", "d", "o", "r">>, <<"x">> }

\* the absolute paths of the directories at most n deep
RECURSIVE DirsUpTo(_)
DirsUpTo(n) ==
    IF n = 0 THEN {}
    ELSE {<<"/">> \o d : d \in DirNames}
         \cup {p \o <<"/">> \o d : p \in DirsUpTo(n - 1), d \in DirNames}

\* the call is_local_package(metadata, name)
CallIsLocalPackage ==
    /\ pc = "is_local"
    /\ isLocal' = is_local_package(metadata, pkgInfo.name)
    /\ pc' = "is_local_done"
    /\ UNCHANGED <<package, as_json, cargoPkgs, workspaceRoot, fs, metadata, deps,
                   order, i, pkgInfo, tryIdx, requests, lastResp, licenseText,
                   stdout, error>>

InitLocal ==
    /\ pc = "is_local"
    /\ \E source \in {None, REGISTRY}, dir \in DirsUpTo(MaxDepth) :
         pkgInfo = Pkg(<<"p", " ", "1", ".", "0", ".", "0">>, <<"p">>, <<>>, source, dir \o <<"/", "C", "a", "r", "g", "o", ".", "t", "o", "m", "l">>,
                       None, None, None)
    /\ workspaceRoot \in DirsUpTo(MaxDepth)
    /\ metadata = [packages |-> (pkgInfo.name :> pkgInfo), workspace_root |-> workspaceRoot]
    /\ cargoPkgs = <<pkgInfo>>
    /\ package = None
    /\ as_json = FALSE
    /\ fs = [d \in {} |-> <<>>]
    /\ deps = {}
    /\ order = <<>>
    /\ i = 0
    /\ tryIdx = 0
    /\ requests = <<>>
    /\ lastResp = 0
    /\ licenseText = NoText
    /\ stdout = <<>>
    /\ error = NoError
    /\ isLocal = FALSE

NextLocal == CallIsLocalPackage

SpecLocal == InitLocal /\ [][NextLocal]_vars


(***************************************************************************)
(* A lone call of fetch_license_text, on each package and package          *)
(* directory of a bounded family.                                          *)
(***************************************************************************)
FetchNames == { <<"f", "o", "o">>, <<"b", "a", "r">> }
FetchManifest == <<"/", "r", "/", "f", "o", "o", "/", "C", "a", "r", "g", "o", ".", "t", "o", "m", "l">>
FetchLicenseFiles == { None, <<"N", "O", "T", "I", "C", "E">>, <<"L", "I", "C", "E", "N", "S", "E", "-", "M", "I", "T">> }
FetchRepositories ==
    { None, <<>>, <<"h", "t", "t", "p", "s", ":", "/", "/", "g", "i", "t", "h", "u", "b", ".", "c", "o", "m", "/", "o", "/", "r">>, <<"h", "t", "t", "p", "s", ":", "/", "/", "g", "i", "t", "h", "u", "b", ".", "c", "o", "m", "/", "o", "/", "r", ".", "g", "i", "t">>,
      <<"h", "t", "t", "p", "s", ":", "/", "/", "g", "i", "t", "l", "a", "b", ".", "c", "o", "m", "/", "o", "/", "r">>, <<"h", "t", "t", "p", ":", "/", "/", "g", "i", "t", "h", "u", "b", ".", "c", "o", "m", "/", "o", "/", "r">> }
EntryNames ==
    { <<"C", "O", "P", "Y", "I", "N", "G">>, <<"L", "I", "C", "E", "N", "S", "E", "-", "M", "I", "T">>, <<"L", "i", "c", "e", "n", "s", "e", ".", "m", "d">>, <<"N", "O", "T", "I", "C", "E">>, <<"R", "E", "A", "D", "M", "E">>,
      <<"l", "i", "c", "e", "n", "s", "e">> }

\* the listings of a package directory: Cargo.toml and at most MaxEntries others
Listings ==
    { l @@ (<<"C", "a", "r", "g", "o", ".", "t", "o", "m", "l">> :> FileEntry) :
        l \in UNION { [S -> {FileEntry, DirEntry}] :
                        S \in {T \in SUBSET EntryNames : Cardinality(T) <= MaxEntries} } }

InitFetch ==
    /\ pc = "fetch"
    /\ \E name \in FetchNames, lf \in FetchLicenseFiles, repo \in FetchRepositories :
         pkgInfo = Pkg(name, name, <<>>, REGISTRY, FetchManifest, None, lf, repo)
    /\ \/ fs = [d \in {} |-> <<>>]
       \/ \E l \in Listings : fs = (Dirname(FetchManifest) :> l)
    /\ package = None
    /\ as_json = FALSE
    /\ cargoPkgs = <<>>
    /\ workspaceRoot = None
    /\ metadata = NoMetadata
    /\ deps = {}
    /\ order = <<>>
    /\ i = 0
    /\ tryIdx = 0
    /\ requests = <<>>
    /\ lastResp = 0
    /\ licenseText = NoText
    /\ stdout = <<>>
    /\ error = NoError
    /\ isLocal = FALSE

NextFetch == fetch_license_text

SpecFetch == InitFetch /\ [][NextFetch]_vars


(***************************************************************************)
(* Properties of fetch_license_text (under SpecFetch).                     *)
(***************************************************************************)
\* the directory of the package's manifest, and the names the claims speak of
PkgRoot == Dirname(pkgInfo.manifest_path)
Declared == pkgInfo.license_file
Returned == pc # "fetch"

\* the declared license file is a file of the package's directory
DeclaredPresent ==
    /\ Declared # None
    /\ IsDir(PkgRoot)
    /\ Declared \in ListDir(PkgRoot)
    /\ fs[PkgRoot][Declared].kind = "file"

\* the package's directory holds a conventionally named entry
ConventionalPresent ==
    /\ IsDir(PkgRoot)
    /\ \E nm \in ListDir(PkgRoot) : IsLicenseName(nm)

\* C6: when the declared license file is present in the package's directory,
\* fetch_license_text returns that file's text, whatever conventionally named
\* entries the directory also holds and wherever they sort.
C6_DeclaredFileWins ==
    (Returned /\ DeclaredPresent) =>
        /\ pc = "fetched"
        /\ licenseText = TextOf(PkgRoot \o <<"/">> \o Declared)

\* C6's case: NOTICE is declared and returned although COPYING, a file that
\* sorts before it, is there too.
C6_Witness ==
    /\ pc = "fetched"
    /\ DeclaredPresent
    /\ Declared = <<"N", "O", "T", "I", "C", "E">>
    /\ <<"C", "O", "P", "Y", "I", "N", "G">> \in ListDir(PkgRoot)
    /\ fs[PkgRoot][<<"C", "O", "P", "Y", "I", "N", "G">>].kind = "file"

\* C7: whenever the package's directory holds the declared license file or a
\* conventionally named entry, fetch_license_text succeeds and no request was
\* issued; a request is issued only after both local steps found nothing.
C7_LocalSucceedsOffline ==
    /\ (Returned /\ (DeclaredPresent \/ ConventionalPresent)) =>
            (pc = "fetched" /\ requests = <<>>)
    /\ requests # <<>> => ~(DeclaredPresent \/ ConventionalPresent)

\* the candidates of the remote fallback, in the order the claim gives
C8_Candidates ==
    (IF Declared # None THEN <<Declared>> ELSE <<>>)
    \o << <<"L", "I", "C", "E", "N", "S", "E", "-", "A", "P", "A", "C", "H", "E">>, <<"L", "I", "C", "E", "N", "S", "E", "-", "M", "I", "T">>, <<"L", "I", "C", "E", "N", "S", "E">>, <<"L", "I", "C", "E", "N", "C", "E", "-", "A", "P", "A", "C", "H", "E">>,
          <<"L", "I", "C", "E", "N", "C", "E", "-", "M", "I", "T">>, <<"L", "I", "C", "E", "N", "C", "E">>, <<"C", "O", "P", "Y", "I", "N", "G">> >>

\* the org/name path of the repository URL, a trailing ".git" stripped
C8_Org ==
    LET rest == SubSeq(pkgInfo.repository, Len(GITHUB) + 1, Len(pkgInfo.repository))
    IN  IF EndsWith(rest, <<".", "g", "i", "t">>) THEN SubSeq(rest, 1, Len(rest) - 4) ELSE rest

C8_Urls ==
    [k \in 1..Len(C8_Candidates) |-> RAW \o C8_Org \o <<"/", "m", "a", "s", "t", "e", "r", "/">> \o C8_Candidates[k]]

C8_InOrder ==
    /\ Len(requests) <= Len(C8_Urls)
    /\ requests = SubSeq(C8_Urls, 1, Len(requests))
    /\ (pc = "fetched" /\ requests # <<>>) =>
            (lastResp = 200 /\ licenseText = Decode(requests[Len(requests)]))

\* C8 as amended: the requests are the candidate list (the declared name, then
\* the seven conventional names) from its first position on, the ".git" stripped;
\* each position is requested at most once, and only after every earlier one
\* returned a status that is not 200; the text of the first 200 is returned and
\* nothing is requested after it.
C8_CandidateOrder ==
    /\ []C8_InOrder
    /\ [][requests' # requests =>
            /\ pc = "remote"
            /\ lastResp \in {0} \cup (StatusCodes \ {200})
            /\ (lastResp = 0) = (requests = <<>>)
            /\ requests' = Append(requests, C8_Urls[Len(requests) + 1])]_vars

\* C8's case: LICENSE-MIT is declared, the URL ends in ".git", and the third
\* request (LICENSE-MIT again) is the first to succeed.
C8_Witness ==
    /\ pc = "fetched"
    /\ pkgInfo.repository = <<"h", "t", "t", "p", "s", ":", "/", "/", "g", "i", "t", "h", "u", "b", ".", "c", "o", "m", "/", "o", "/", "r", ".", "g", "i", "t">>
    /\ Declared = <<"L", "I", "C", "E", "N", "S", "E", "-", "M", "I", "T">>
    /\ Len(requests) = 3
    /\ requests[3] = <<"h", "t", "t", "p", "s", ":", "/", "/", "r", "a", "w", ".", "g", "i", "t", "h", "u", "b", "u", "s", "e", "r", "c", "o", "n", "t", "e", "n", "t", ".", "c", "o", "m", "/", "o", "/", "r", "/", "m", "a", "s", "t", "e", "r", "/", "L", "I", "C", "E", "N", "S", "E", "-", "M", "I", "T">>

\* C8 as stated: the requests follow the candidate order and no candidate is
\* requested more than once.
C8_EachCandidateOnce ==
    /\ C8_InOrder
    /\ \A a, b \in 1..Len(requests) : requests[a] = requests[b] => a = b

\* no local step finds a license text
NoLocalText == ~DeclaredPresent /\ ~ConventionalPresent

\* C9: with no local license text and a repository URL that is absent or does
\* not start with the GitHub prefix, no request is issued and the error raised
\* is the not-found error with the package's name; with a GitHub URL and every
\* candidate answered by a status that is not 200, the same error is raised.
C9_NotFound ==
    /\ (Returned /\ NoLocalText /\ ~StartsWith(pkgInfo.repository, GITHUB)) =>
            /\ pc = "aborted"
            /\ error = Exception("RuntimeError", pkgInfo.name)
            /\ requests = <<>>
    /\ (/\ pc \in {"fetched", "aborted"}
        /\ NoLocalText
        /\ StartsWith(pkgInfo.repository, GITHUB)
        /\ Len(requests) = Len(C8_Candidates)
        /\ lastResp \in StatusCodes \ {200}) =>
            /\ pc = "aborted"
            /\ error = Exception("RuntimeError", pkgInfo.name)

\* C9's case: a gitlab repository, a directory without a license.
C9_Witness ==
    /\ pc = "aborted"
    /\ IsDir(PkgRoot)
    /\ NoLocalText
    /\ pkgInfo.repository = <<"h", "t", "t", "p", "s", ":", "/", "/", "g", "i", "t", "l", "a", "b", ".", "c", "o", "m", "/", "o", "/", "r">>
    /\ error = Exception("RuntimeError", <<"f", "o", "o">>)
    /\ pkgInfo.name = <<"f", "o", "o">>

\* C10 as stated: a fetch that raises is a missing file; the remote fallback
\* ends in an error only with the not-found error, after every candidate was
\* requested.
C10_FaultIsMiss ==
    (pc = "aborted" /\ requests # <<>>) =>
        /\ error = Exception("RuntimeError", pkgInfo.name)
        /\ Len(requests) = Len(C8_Candidates)

\* C10 as amended: a fetch that raises ends fetch_license_text with that
\* exception, and the candidate that raised is the last one requested; the
\* position moves on only past a response whose status is not 200.
C10_FaultPropagates ==
    /\ lastResp = -1 =>
            /\ pc = "aborted"
            /\ error = Exception("ConnectionError", <<>>)
            /\ requests[Len(requests)] = C8_Urls[tryIdx]
            /\ Len(requests) = tryIdx
    /\ (pc = "remote" /\ tryIdx > 1) => lastResp \in StatusCodes \ {200}

\* C10's case: the first of eight candidates raises.
C10_Witness ==
    /\ lastResp = -1
    /\ Len(requests) = 1
    /\ Len(C8_Candidates) = 8
    /\ pc = "aborted"


(***************************************************************************)
(* Properties of print_license_summary (under Spec).                       *)
(***************************************************************************)
\* the names of the records printed, in the order printed
RECURSIVE RecordNames(_)
RecordNames(out) ==
    IF out = <<>> THEN <<>>
    ELSE (IF Head(out).line = "json" THEN <<Head(out).val.name>>
          ELSE IF Head(out).line = "Name: " THEN <<Head(out).val>>
          ELSE <<>>) \o RecordNames(Tail(out))

\* C1: in JSON mode a run that completes prints a valid JSON array: "[", one
\* object per dependency that is not local, in ascending order of name, a ","
\* after each object but the last, and one "]" at the end.
C1_ValidJsonArray ==
    (pc = "done" /\ as_json) =>
        LET n == Len(stdout)
            names == RecordNames(stdout)
        IN  /\ n >= 2
            /\ stdout[1].line = "["
            /\ stdout[n].line = "]"
            /\ n = 2 \/ n % 2 = 1
            /\ \A k \in 2..(n - 1) : stdout[k].line = (IF k % 2 = 0 THEN "json" ELSE ",")
            /\ \A a, b \in 1..Len(names) : a < b => StrLess(names[a], names[b])
            /\ {names[k] : k \in 1..Len(names)}
                    = {d \in deps : ~is_local_package(metadata, d)}

\* C2: when fetch_license_text raises the not-found error the run ends with
\* nothing of the report written to standard output.
C2_NoPartialReport ==
    (pc = "aborted" /\ error.type = "RuntimeError") => stdout = <<>>

\* a member of the workspace: no source, and a manifest below the workspace root
IsMember(name) ==
    /\ metadata.packages[name].source = None
    /\ StartsWith(metadata.packages[name].manifest_path, metadata.workspace_root \o <<"/">>)

\* C3: a run that completes has printed exactly one record for each dependency
\* that is not a local package, and none for a member of the workspace.
C3_RecordPerNonLocal ==
    pc = "done" =>
        LET names == RecordNames(stdout)
        IN  /\ \A k \in 1..Len(names) : names[k] \in deps
            /\ \A d \in deps :
                 Cardinality({k \in 1..Len(names) : names[k] = d})
                    = (IF IsMember(d) THEN 0 ELSE 1)

(***************************************************************************)
(* Properties of get_workspace_metadata (under SpecMeta).                  *)
(***************************************************************************)
\* C4: get_workspace_metadata returns a lookup only when no two entries of the
\* package list share a name, so that each entry is the lookup's value at its
\* name.
C4_NamesUnique ==
    pc = "tree" =>
        /\ \A a, b \in 1..Len(cargoPkgs) :
             a # b => cargoPkgs[a].name # cargoPkgs[b].name
        /\ \A a \in 1..Len(cargoPkgs) :
             metadata.packages[cargoPkgs[a].name] = cargoPkgs[a]

(***************************************************************************)
(* Properties of is_local_package (under SpecLocal).                       *)
(***************************************************************************)
\* C5: is_local_package returns true if and only if the package has no source
\* and its manifest lies below the workspace root, directory by directory.
C5_LocalIffRootedUnder ==
    pc = "is_local_done" =>
        (isLocal <=> (/\ pkgInfo.source = None
                      /\ StartsWith(pkgInfo.manifest_path, workspaceRoot \o <<"/">>)))

====
